---- MODULE Spec2Model ----
(***************************************************************************)
(* Model of fastapi_crud_generator/codemods.py: the three libcst based     *)
(* source mutators (router registration, repository dependency, model      *)
(* export list) and the read / parse / visit / compare / write driver      *)
(* around each of them.                                                    *)
(*                                                                         *)
(* A file text is a sequence of logical lines.  Every line is a record     *)
(*   k     kind: "blank", "comment", "stmt", "import", "call", "def",      *)
(*         "all" (an assignment to __all__) or "bad" (text that does not   *)
(*         parse)                                                          *)
(*   m     dotted module path of a from-import / receiver of a call        *)
(*   n     imported name / first call argument / function name             *)
(*   a     alias of an import (<<>> when there is none) / body of a def    *)
(*   els   the elements of an __all__ value                                *)
(*   lay   the layout of an __all__ value                                  *)
(*   cmt   the trailing comment on the line ("" when there is none)        *)
(*   nest  TRUE when the statement sits inside a compound statement        *)
(*         (if ...: / try: ...), i.e. is not a top-level statement line    *)
(* Names built by f-strings are tuples of their pieces.                    *)
(***************************************************************************)
EXTENDS Integers, Sequences, FiniteSets, TLC

\* longest file text Init draws, before the blank lines that trail it
MaxLen == 3
\* most blank lines that trail the dependencies file Init draws
MaxTrail == 3
\* most ensure_* calls in one behaviour
MaxCalls == 2

ModuleNames == {"order", "widget"}
AppNames == {"app", "api"}

\* model_name.lower() is the default module name (cli.py:109)
ModelOf(module_name) == IF module_name = "order" THEN "Order" ELSE "Widget"

U(k, m, n, a, els, lay, cmt, nest) ==
    [k |-> k, m |-> m, n |-> n, a |-> a, els |-> els, lay |-> lay,
     cmt |-> cmt, nest |-> nest]

Blank == U("blank", <<>>, <<>>, <<>>, <<>>, "", "", FALSE)
Comment == U("comment", <<>>, <<>>, <<>>, <<>>, "", "# note", FALSE)
Stmt(cmt) == U("stmt", <<>>, <<>>, <<>>, <<>>, "", cmt, FALSE)
Bad == U("bad", <<>>, <<>>, <<>>, <<>>, "", "", FALSE)
ImportFrom(m, n, a, cmt, nest) == U("import", m, n, a, <<>>, "", cmt, nest)
Call(recv, arg, nest) == U("call", recv, arg, <<>>, <<>>, "", "", nest)
FunctionDef(name, body) == U("def", <<>>, name, body, <<>>, "", "", FALSE)
AllAssign(els, lay, cmt, nest) == U("all", <<>>, <<>>, <<>>, els, lay, cmt, nest)

\* an element of an __all__ value: a string literal or another expression
Str(v) == [str |-> TRUE, v |-> v]
Expr(v) == [str |-> FALSE, v |-> v]

IsTrivia(u) == u.k \in {"blank", "comment"}

(***************************************************************************)
(* libcst: parse_module / Module.code                                      *)
(***************************************************************************)
\* cst.parse_module raises ParserSyntaxError on text that is not Python
Parses(text) == \A i \in 1..Len(text) : text[i].k # "bad"

RECURSIVE ParseBody(_, _, _)
\* statements in order, each owning the blank / comment lines above it
ParseBody(text, i, lead) ==
    IF i > Len(text) THEN <<>>
    ELSE IF IsTrivia(text[i]) THEN ParseBody(text, i + 1, Append(lead, text[i]))
    ELSE <<[lead |-> lead, u |-> text[i]]>> \o ParseBody(text, i + 1, <<>>)

RECURSIVE TrailingTrivia(_)
\* number of blank / comment lines after the last statement
TrailingTrivia(text) ==
    IF Len(text) = 0 THEN 0
    ELSE IF IsTrivia(text[Len(text)])
         THEN 1 + TrailingTrivia(SubSeq(text, 1, Len(text) - 1))
         ELSE 0

\* Module(header, body, footer): the lines above the first statement belong
\* to the module header, the lines after the last statement to the footer
parse_module(text) ==
    LET nodes == ParseBody(text, 1, <<>>)
        t == TrailingTrivia(text)
    IN IF Len(nodes) = 0
       THEN [header |-> text, body |-> <<>>, footer |-> <<>>]
       ELSE [header |-> nodes[1].lead,
             body |-> [i \in 1..Len(nodes) |->
                         IF i = 1 THEN [lead |-> <<>>, u |-> nodes[1].u]
                         ELSE nodes[i]],
             footer |-> SubSeq(text, Len(text) - t + 1, Len(text))]

RECURSIVE CodeOfBody(_)
CodeOfBody(body) ==
    IF Len(body) = 0 THEN <<>>
    ELSE body[1].lead \o <<body[1].u>> \o CodeOfBody(Tail(body))

\* Module.code: header, then every body node with its leading lines, then
\* the footer
code(mod) == mod.header \o CodeOfBody(mod.body) \o mod.footer

\* cst.parse_statement(src): a statement node without leading lines
parse_statement(u) == [lead |-> <<>>, u |-> u]

\* cst.EmptyLine() placed in Module.body: printed as one blank line
EmptyLine == [lead |-> <<>>, u |-> Blank]

IsEmptyLine(node) == node.u.k = "blank"

IsSimpleStatementLine(node) ==
    node.u.k \in {"stmt", "import", "call", "all"} /\ ~node.u.nest

\* isinstance(stmt, SimpleStatementLine) and any(isinstance(s, (Import, ImportFrom)) ...)
IsImportLine(node) == IsSimpleStatementLine(node) /\ node.u.k = "import"

Max(S) == CHOOSE x \in S : \A y \in S : y <= x

\* mutant: the loop stops at the first top-level import
InsertIndexFirst(body) ==
    LET S == {i \in 1..Len(body) : IsImportLine(body[i])}
    IN IF S = {} THEN 0 ELSE CHOOSE x \in S : \A y \in S : x <= y

\* the insert_index loops: one past the last top-level import, 0 without one
InsertIndex(body) == Max({0} \cup {i \in 1..Len(body) : IsImportLine(body[i])})

\* list.insert(k, x) with a 0-based k in 0..len
Insert(s, k, x) == SubSeq(s, 1, k) \o <<x>> \o SubSeq(s, k + 1, Len(s))

\* list.pop(k) with a 0-based k
Pop(s, k) == SubSeq(s, 1, k) \o SubSeq(s, k + 2, Len(s))

(***************************************************************************)
(* Router registration                                                     *)
(***************************************************************************)
RouterSpec(module_name, app_name) ==
    [module_name |-> module_name,
     import_module |-> <<"src.api", module_name, "routes">>,
     import_name |-> <<"router">>,
     alias |-> <<module_name, "_router">>,
     app_name |-> app_name]

\* mutant: only an import under the expected alias counts
RouterSeenImportAliasOnly(mod, spec) ==
    \E i \in 1..Len(mod.body) :
        /\ mod.body[i].u.k = "import"
        /\ mod.body[i].u.m = spec.import_module
        /\ mod.body[i].u.n = spec.import_name
        /\ mod.body[i].u.a = spec.alias

\* _RouterTransformer.visit_ImportFrom, over every import of the tree
RouterSeenImport(mod, spec) ==
    \E i \in 1..Len(mod.body) :
        /\ mod.body[i].u.k = "import"
        /\ mod.body[i].u.m = spec.import_module
        /\ mod.body[i].u.n = spec.import_name
        /\ mod.body[i].u.a \in {<<>>, spec.alias}

\* mutant: the first argument is compared with the imported name, not the alias
RouterSeenIncludeByName(mod, spec) ==
    \E i \in 1..Len(mod.body) :
        /\ mod.body[i].u.k = "call"
        /\ mod.body[i].u.m = <<spec.app_name, "include_router">>
        /\ mod.body[i].u.n = spec.import_name

\* _RouterTransformer.visit_SimpleStatementLine, over every statement line
RouterSeenInclude(mod, spec) ==
    \E i \in 1..Len(mod.body) :
        /\ mod.body[i].u.k = "call"
        /\ mod.body[i].u.m = <<spec.app_name, "include_router">>
        /\ mod.body[i].u.n = spec.alias

RouterImportStmt(spec) ==
    parse_statement(ImportFrom(spec.import_module, spec.import_name, spec.alias,
                               "# noqa: E402", FALSE))

RouterIncludeStmt(spec) ==
    parse_statement(Call(<<spec.app_name, "include_router">>, spec.alias, FALSE))

\* mutant: the call is appended only together with the import
RouterLeaveModuleCoupled(mod, spec) ==
    LET b0 == mod.body
        b1 == IF ~RouterSeenImport(mod, spec)
              THEN Insert(b0, InsertIndex(b0), RouterImportStmt(spec))
              ELSE b0
        b2 == IF ~RouterSeenInclude(mod, spec) /\ ~RouterSeenImport(mod, spec)
              THEN Append(b1, RouterIncludeStmt(spec))
              ELSE b1
    IN [mod EXCEPT !.body = b2]

\* _RouterTransformer.leave_Module
RouterLeaveModule(mod, spec) ==
    LET b0 == mod.body
        b1 == IF ~RouterSeenImport(mod, spec)
              THEN Insert(b0, InsertIndex(b0), RouterImportStmt(spec))
              ELSE b0
        b2 == IF ~RouterSeenInclude(mod, spec)
              THEN Append(b1, RouterIncludeStmt(spec))
              ELSE b1
    IN [mod EXCEPT !.body = b2]

(***************************************************************************)
(* Repository dependency                                                   *)
(***************************************************************************)
DepsSpec(module_name, model_name) ==
    [module_name |-> module_name,
     model_name |-> model_name,
     import_module |-> <<"src.db.repositories", module_name>>,
     import_name |-> <<model_name, "Repository">>,
     func_name |-> <<"get_", module_name, "_repository">>]

\* mutant: only an import without alias counts
DepsSeenImportNoAlias(mod, spec) ==
    \E i \in 1..Len(mod.body) :
        /\ mod.body[i].u.k = "import"
        /\ mod.body[i].u.m = spec.import_module
        /\ mod.body[i].u.n = spec.import_name
        /\ mod.body[i].u.a = <<>>

\* _DepsTransformer.visit_ImportFrom: the alias is not looked at
DepsSeenImport(mod, spec) ==
    \E i \in 1..Len(mod.body) :
        /\ mod.body[i].u.k = "import"
        /\ mod.body[i].u.m = spec.import_module
        /\ mod.body[i].u.n = spec.import_name

\* mutant: the function counts only with the body the generator writes
DepsSeenFuncSameBody(mod, spec) ==
    \E i \in 1..Len(mod.body) :
        /\ mod.body[i].u.k = "def"
        /\ mod.body[i].u.n = spec.func_name
        /\ mod.body[i].u.a = <<"return ">> \o spec.import_name \o <<"(storage)">>

\* _DepsTransformer.visit_FunctionDef
DepsSeenFunc(mod, spec) ==
    \E i \in 1..Len(mod.body) :
        /\ mod.body[i].u.k = "def"
        /\ mod.body[i].u.n = spec.func_name

DepsImportStmt(spec) ==
    parse_statement(ImportFrom(spec.import_module, spec.import_name, <<>>, "", FALSE))

\* func_src: def get_<module>_repository(storage=Depends(get_storage)) -> <Model>Repository
DepsFuncStmt(spec) ==
    parse_statement(FunctionDef(spec.func_name,
                                <<"return ">> \o spec.import_name \o <<"(storage)">>))

RECURSIVE TrailingBlanks(_)
\* for node in reversed(new_body): count the cst.EmptyLine nodes at the end
TrailingBlanks(body) ==
    IF Len(body) = 0 THEN 0
    ELSE IF IsEmptyLine(body[Len(body)])
         THEN 1 + TrailingBlanks(SubSeq(body, 1, Len(body) - 1))
         ELSE 0

RECURSIVE AppendEmptyLines(_, _)
AppendEmptyLines(body, needed) ==
    IF needed <= 0 THEN body
    ELSE AppendEmptyLines(Append(body, EmptyLine), needed - 1)

\* mutant: the padding stops at one blank line
DepsLeaveModuleOneBlank(mod, spec) ==
    LET b0 == mod.body
        b1 == IF ~DepsSeenImport(mod, spec)
              THEN Insert(b0, InsertIndex(b0), DepsImportStmt(spec))
              ELSE b0
        needed == Max({0, 1 - TrailingBlanks(b1)})
        b2 == IF ~DepsSeenFunc(mod, spec)
              THEN Append(AppendEmptyLines(b1, needed), DepsFuncStmt(spec))
              ELSE b1
    IN [mod EXCEPT !.body = b2]

\* _DepsTransformer.leave_Module
DepsLeaveModule(mod, spec) ==
    LET b0 == mod.body
        b1 == IF ~DepsSeenImport(mod, spec)
              THEN Insert(b0, InsertIndex(b0), DepsImportStmt(spec))
              ELSE b0
        needed == Max({0, 2 - TrailingBlanks(b1)})
        b2 == IF ~DepsSeenFunc(mod, spec)
              THEN Append(AppendEmptyLines(b1, needed), DepsFuncStmt(spec))
              ELSE b1
    IN [mod EXCEPT !.body = b2]

(***************************************************************************)
(* Model export list                                                       *)
(***************************************************************************)
ModelExportSpec(module_name, model_name) ==
    [module_name |-> module_name, model_name |-> model_name]

\* _ModelExportTransformer.visit_ImportFrom: the alias is not looked at
ExportSeenImport(mod, spec) ==
    \E i \in 1..Len(mod.body) :
        /\ mod.body[i].u.k = "import"
        /\ mod.body[i].u.m = <<"src.db.models", spec.module_name>>
        /\ mod.body[i].u.n = <<spec.model_name>>

\* isinstance(val, (cst.List, cst.Tuple))
IsListOrTuple(lay) == lay \in {"canon", "inline", "tuple"}

RECURSIVE StringValues(_)
\* the evaluated_value of every element that is a SimpleString
StringValues(els) ==
    IF Len(els) = 0 THEN <<>>
    ELSE (IF els[1].str THEN <<els[1].v>> ELSE <<>>) \o StringValues(Tail(els))

\* _ModelExportTransformer.visit_SimpleStatementLine: every assignment to
\* __all__ the visitor meets, nested ones too, resets current_all_names, so
\* the last one visited decides
CurrentAllNames(mod) ==
    LET S == {i \in 1..Len(mod.body) : mod.body[i].u.k = "all"}
    IN IF S = {} THEN <<>>
       ELSE LET u == mod.body[Max(S)].u
            IN IF IsListOrTuple(u.lay) THEN StringValues(u.els) ELSE <<>>

ExportImportStmt(spec) ==
    parse_statement(ImportFrom(<<"src.db.models", spec.module_name>>,
                               <<spec.model_name>>, <<>>, "", FALSE))

Min(S) == CHOOSE x \in S : \A y \in S : x <= y

\* the all_idx loop: 1-based index of the first top-level __all__ assignment,
\* 0 for None
AllIdx(body) ==
    LET S == {i \in 1..Len(body) : IsSimpleStatementLine(body[i]) /\ body[i].u.k = "all"}
    IN IF S = {} THEN 0 ELSE Min(S)

Contains(names, x) == \E i \in 1..Len(names) : names[i] = x

\* mutant: 'Base' is appended instead of put first
DesiredNamesBaseLast(current, found, model_name) ==
    LET n0 == IF found THEN current ELSE <<>>
        n1 == IF ~Contains(n0, "Base") THEN Append(n0, "Base") ELSE n0
    IN IF ~Contains(n1, model_name) THEN Append(n1, model_name) ELSE n1

\* names: 'Base' first when missing, the model name last when missing
DesiredNames(current, found, model_name) ==
    LET n0 == IF found THEN current ELSE <<>>
        n1 == IF ~Contains(n0, "Base") THEN <<"Base">> \o n0 ELSE n0
    IN IF ~Contains(n1, model_name) THEN Append(n1, model_name) ELSE n1

\* build_all_stmt: repr() of every name, one per line, trailing commas
build_all_stmt(names) ==
    parse_statement(AllAssign([i \in 1..Len(names) |-> Str(names[i])], "canon", "", FALSE))

RECURSIVE PopEmptyAt(_, _)
\* while insert_at < len(body) and isinstance(body[insert_at], EmptyLine): pop
PopEmptyAt(body, at) ==
    IF at < Len(body) /\ IsEmptyLine(body[at + 1])
    THEN PopEmptyAt(Pop(body, at), at)
    ELSE body

RECURSIVE PopEmptyBefore(_, _)
\* the j loop: drop the EmptyLine nodes right before all_idx (0-based);
\* gives the body and the all_idx left
PopEmptyBefore(body, idx) ==
    IF idx - 1 >= 0 /\ IsEmptyLine(body[idx])
    THEN PopEmptyBefore(Pop(body, idx - 1), idx - 1)
    ELSE [body |-> body, all_idx |-> idx]

\* _ModelExportTransformer.leave_Module
ExportLeaveModule(mod, spec) ==
    LET b0 == mod.body
        b1 == IF ~ExportSeenImport(mod, spec)
              THEN Insert(b0, InsertIndex(b0), ExportImportStmt(spec))
              ELSE b0
        all_idx == AllIdx(b1)
        names == DesiredNames(CurrentAllNames(mod), all_idx # 0, spec.model_name)
        all_stmt == build_all_stmt(names)
        b2 == IF all_idx = 0
              THEN LET insert_at == InsertIndex(b1)
                       p == PopEmptyAt(b1, insert_at)
                   IN Insert(Insert(p, insert_at, EmptyLine), insert_at + 1, all_stmt)
              ELSE LET r == [b1 EXCEPT ![all_idx] = all_stmt]
                       q == PopEmptyBefore(r, all_idx - 1)
                   IN Insert(q.body, q.all_idx, EmptyLine)
    IN [mod EXCEPT !.body = b2]

(***************************************************************************)
(* The drivers: read_text, parse_module, visit, compare, write_text        *)
(***************************************************************************)
\* what one call did: the exception if any, the text on disk afterwards,
\* whether write_text ran, the value returned and the text of new_mod.code
\* mutant: the file is opened for writing before the text is parsed
RaisedAfterTruncate(text) ==
    [raised |-> TRUE, disk |-> <<>>, wrote |-> TRUE, returned |-> FALSE,
     new_code |-> text]

Raised(text) ==
    [raised |-> TRUE, disk |-> text, wrote |-> FALSE, returned |-> FALSE,
     new_code |-> text]

\* mutant: the file is written on every call
WriteAlways(text, new_code) ==
    [raised |-> FALSE, disk |-> new_code, wrote |-> TRUE,
     returned |-> new_code # text, new_code |-> new_code]

\* changed = new_mod.code != text; if changed: write_text(new_mod.code); return changed
WriteIfChanged(text, new_code) ==
    LET changed == new_code # text
    IN [raised |-> FALSE,
        disk |-> IF changed THEN new_code ELSE text,
        wrote |-> changed,
        returned |-> changed,
        new_code |-> new_code]

ensure_router_registered(text, module_name, app_name) ==
    IF ~Parses(text) THEN Raised(text)
    ELSE WriteIfChanged(text,
            code(RouterLeaveModule(parse_module(text), RouterSpec(module_name, app_name))))

ensure_repository_dependency(text, module_name, model_name) ==
    IF ~Parses(text) THEN Raised(text)
    ELSE WriteIfChanged(text,
            code(DepsLeaveModule(parse_module(text), DepsSpec(module_name, model_name))))

\* if new_mod.code != src: write_text(new_mod.code); return True / return False
ensure_model_export(text, module_name, model_name) ==
    IF ~Parses(text) THEN Raised(text)
    ELSE LET new_code == code(ExportLeaveModule(parse_module(text),
                                  ModelExportSpec(module_name, model_name)))
         IN IF new_code # text
            THEN [raised |-> FALSE, disk |-> new_code, wrote |-> TRUE,
                  returned |-> TRUE, new_code |-> new_code]
            ELSE [raised |-> FALSE, disk |-> text, wrote |-> FALSE,
                  returned |-> FALSE, new_code |-> new_code]

(***************************************************************************)
(* State: one target file of a generate run and the calls made on it      *)
(***************************************************************************)
VARIABLES path, disk, log

\* one generate invocation (cli.py): the files on disk, the files as they
\* were before it, the statement reached, the options, the *_modified flags,
\* the FileWriteResult list, the lines echoed, the exception that ended it
\* and what became of each codemod target
VARIABLES files, files0, pc, opts, modified, results, echoed, error, outcome

\* one field of _build_context (cli.py): the FieldSpec and its fields_ctx entry
VARIABLES field, field_ctx

codemodVars == <<path, disk, log>>
generateVars == <<files, files0, pc, opts, modified, results, echoed, error, outcome>>
contextVars == <<field, field_ctx>>

vars == <<codemodVars, generateVars, contextVars>>

\* no codemod call under way
CodemodIdle == path = "" /\ disk = <<>> /\ log = <<>>

\* no generate invocation under way
GenerateIdle ==
    /\ files = <<>> /\ files0 = <<>> /\ pc = "idle" /\ opts = <<>>
    /\ modified = <<>> /\ results = <<>> /\ echoed = <<>> /\ error = ""
    /\ outcome = <<>>

\* no field under way
ContextIdle == field = <<>> /\ field_ctx = <<>>

\* cli.py: app_file, src_dir/api/repositories/dependencies.py,
\* src_dir/db/models/__init__.py
AppPy == "src/api/app.py"
DepsPy == "src/api/repositories/dependencies.py"
ModelsInitPy == "src/db/models/__init__.py"

Common ==
    {Blank, Comment, Stmt(""), Bad,
     ImportFrom(<<"typing">>, <<"Any">>, <<>>, "", FALSE)}

OrderRoutes == <<"src.api", "order", "routes">>

AppLines ==
    Common \cup
    {ImportFrom(OrderRoutes, <<"router">>, <<"order", "_router">>, "", FALSE),
     ImportFrom(OrderRoutes, <<"router">>, <<>>, "", FALSE),
     ImportFrom(OrderRoutes, <<"router">>, <<"r">>, "", FALSE),
     ImportFrom(OrderRoutes, <<"router">>, <<"order", "_router">>, "", TRUE),
     Call(<<"app", "include_router">>, <<"order", "_router">>, FALSE),
     Call(<<"app", "include_router">>, <<"order", "_router">>, TRUE)}

DepsLines ==
    Common \cup
    {ImportFrom(<<"src.db.repositories", "order">>, <<"Order", "Repository">>, <<>>, "", FALSE),
     ImportFrom(<<"src.db.repositories", "order">>, <<"Order", "Repository">>, <<"Repo">>, "", FALSE),
     FunctionDef(<<"get_", "order", "_repository">>, <<"raise NotImplementedError">>)}

ModelsLines ==
    Common \cup
    {ImportFrom(<<"src.db.models", "order">>, <<"Order">>, <<>>, "", FALSE),
     ImportFrom(<<"src.db.models", "order">>, <<"Order">>, <<"OrderModel">>, "", FALSE),
     ImportFrom(<<"src.db.models", "order">>, <<"Order">>, <<>>, "", TRUE),
     AllAssign(<<Str("Base"), Str("Order")>>, "inline", "", FALSE),
     AllAssign(<<Str("Base"), Str("Order")>>, "canon", "", FALSE),
     AllAssign(<<Str("Zeta"), Str("Alpha")>>, "inline", "# public", FALSE),
     AllAssign(<<Str("Alpha")>>, "inline", "", TRUE),
     AllAssign(<<Str("Base"), Expr("*extra")>>, "tuple", "", FALSE),
     AllAssign(<<>>, "expr", "", FALSE)}

SeqsUpTo(S, n) == UNION {[1..k -> S] : k \in 0..n}

Blanks(n) == [i \in 1..n |-> Blank]

Init ==
    /\ GenerateIdle /\ ContextIdle
    /\ log = <<>>
    /\ \/ path = AppPy /\ disk \in SeqsUpTo(AppLines, MaxLen)
       \/ path = ModelsInitPy /\ disk \in SeqsUpTo(ModelsLines, MaxLen)
       \/ /\ path = DepsPy
          /\ \E t \in SeqsUpTo(DepsLines, MaxLen), b \in 0..MaxTrail :
                disk = t \o Blanks(b)

Logged(fn, module_name, model_name, app_name, r) ==
    [fn |-> fn, module_name |-> module_name, model_name |-> model_name,
     app_name |-> app_name, before |-> disk, after |-> r.disk,
     new_code |-> r.new_code, raised |-> r.raised, wrote |-> r.wrote,
     returned |-> r.returned]

\* cli.py:136  ensure_router_registered(app_file, module_name=mod_name, app_name=app_name)
EnsureRouterRegistered ==
    /\ path = AppPy
    /\ Len(log) < MaxCalls
    /\ \E module_name \in ModuleNames, app_name \in AppNames :
         LET r == ensure_router_registered(disk, module_name, app_name)
         IN /\ disk' = r.disk
            /\ log' = Append(log, Logged("router", module_name, "", app_name, r))
    /\ UNCHANGED <<path, generateVars, contextVars>>

\* cli.py:139  ensure_repository_dependency(deps_file, module_name=mod_name, model_name=model_name)
EnsureRepositoryDependency ==
    /\ path = DepsPy
    /\ Len(log) < MaxCalls
    /\ \E module_name \in ModuleNames :
         LET r == ensure_repository_dependency(disk, module_name, ModelOf(module_name))
         IN /\ disk' = r.disk
            /\ log' = Append(log, Logged("deps", module_name, ModelOf(module_name), "", r))
    /\ UNCHANGED <<path, generateVars, contextVars>>

\* cli.py:144  ensure_model_export(models_init, module_name=mod_name, model_name=model_name)
EnsureModelExport ==
    /\ path = ModelsInitPy
    /\ Len(log) < MaxCalls
    /\ \E module_name \in ModuleNames :
         LET r == ensure_model_export(disk, module_name, ModelOf(module_name))
         IN /\ disk' = r.disk
            /\ log' = Append(log, Logged("export", module_name, ModelOf(module_name), "", r))
    /\ UNCHANGED <<path, generateVars, contextVars>>

Next ==
    \/ EnsureRouterRegistered
    \/ EnsureRepositoryDependency
    \/ EnsureModelExport

Spec == Init /\ [][Next]_vars

(***************************************************************************)
(* _build_context: the fields_ctx entry of one field                       *)
(***************************************************************************)
\* Python values: their type and their repr()
PyNone == [ty |-> "NoneType", repr |-> "None"]
PyTrue == [ty |-> "bool", repr |-> "True"]
PyFalse == [ty |-> "bool", repr |-> "False"]
PyZero == [ty |-> "int", repr |-> "0"]
PyLength == [ty |-> "int", repr |-> "120"]
PyText == [ty |-> "str", repr |-> "'x'"]
\* mappings.py:5  _NO_DEFAULT = object()
NO_DEFAULT == [ty |-> "object", repr |-> "<object object at _NO_DEFAULT>"]
\* cli.py:46  object(): a new object on every call
NewObject == [ty |-> "object", repr |-> "<object object at 0x...>"]

PyValues == {PyNone, PyTrue, PyFalse, PyZero, PyLength, PyText}

\* dict.get(key, default)
Get(params, key, default) == IF key \in DOMAIN params THEN params[key] ELSE default

\* bool(value)
Truthy(v) == v \notin {PyNone, PyFalse, PyZero}

\* _coerce_int: the digits of int(v), "" for None
CoerceInt(v) ==
    IF v.ty = "int" THEN v.repr
    ELSE IF v = PyTrue THEN "1"
    ELSE IF v = PyFalse THEN "0"
    ELSE ""

\* normalize_logical_type on the tokens the model draws
normalize_logical_type(t) ==
    IF t \in {"string", "String"} THEN "str"
    ELSE IF t \in {"boolean"} THEN "bool"
    ELSE IF t = "EMAIL" THEN "email"
    ELSE t

StringExpr(length) == IF length # "" THEN <<"String(", length, ")">> ELSE <<"String()">>

Annotations(pydantic, route, repo, orm, sa) ==
    [pydantic_annotation |-> pydantic, route_param_annotation |-> route,
     repo_annotation |-> repo, orm_type_annotation |-> orm, sa_type_expr |-> sa]

map_field_types(logical_type, params) ==
    LET lt == normalize_logical_type(logical_type)
        length == CoerceInt(Get(params, "length", PyNone))
    IN IF lt = "str" THEN Annotations("str", "str", "str", "str", StringExpr(length))
       ELSE IF lt = "email"
            THEN Annotations("EmailStr", "EmailStr", "str", "str", StringExpr(length))
       ELSE IF lt = "int" THEN Annotations("int", "int", "int", "int", <<"Integer()">>)
       ELSE IF lt = "bool" THEN Annotations("bool", "bool", "bool", "bool", <<"Boolean()">>)
       ELSE IF lt = "float"
            THEN Annotations("float", "float", "float", "float", <<"Float()">>)
       ELSE Annotations("str", "str", "str", "str", StringExpr(length))

\* (code_repr, has_default)
render_default_repr(value) ==
    IF value = NO_DEFAULT THEN [code_repr |-> "", has_default |-> FALSE]
    ELSE IF value = PyNone THEN [code_repr |-> "None", has_default |-> TRUE]
    ELSE [code_repr |-> value.repr, has_default |-> TRUE]

\* the dict appended to fields_ctx for one FieldSpec
FieldContext(fs) ==
    LET ty == map_field_types(fs.logical_type, fs.params)
        default == Get(fs.params, "default", PyNone)
        r == render_default_repr(IF "default" \in DOMAIN fs.params THEN default
                                 ELSE NewObject)
    IN [name |-> fs.name,
        pydantic_annotation |-> ty.pydantic_annotation,
        route_param_annotation |-> ty.route_param_annotation,
        repo_annotation |-> ty.repo_annotation,
        orm_type_annotation |-> ty.orm_type_annotation,
        sa_type_expr |-> ty.sa_type_expr,
        unique |-> Truthy(Get(fs.params, "unique", PyFalse)),
        nullable |-> Truthy(Get(fs.params, "nullable", PyFalse)),
        index |-> Truthy(Get(fs.params, "index", PyFalse)),
        default |-> IF "default" \in DOMAIN fs.params THEN default ELSE PyNone,
        default_repr |-> IF r.has_default THEN r.code_repr ELSE "None"]

LogicalTypes == {"str", "String", "email", "int", "bool", "float", "uuid"}

ParamKeys == {"default", "unique", "nullable", "index", "length"}

\* the values parse_field_token gives each key in the tokens the model draws
ParamValues(key) ==
    IF key = "default" THEN {PyNone, PyFalse, PyZero, PyText}
    ELSE IF key = "length" THEN {PyLength}
    ELSE {PyTrue}

ParamDicts ==
    UNION {{p \in [D -> PyValues] : \A k \in D : p[k] \in ParamValues(k)} :
             D \in SUBSET ParamKeys}

FieldSpecs ==
    {[name |-> "title", logical_type |-> t, params |-> p] :
        t \in LogicalTypes, p \in ParamDicts}

InitContext ==
    /\ CodemodIdle /\ GenerateIdle
    /\ field \in FieldSpecs
    /\ field_ctx = <<>>

\* cli.py:40-62  one turn of the loop over field_specs
BuildContext ==
    /\ field_ctx = <<>>
    /\ field_ctx' = Append(field_ctx, FieldContext(field))
    /\ UNCHANGED <<field, codemodVars, generateVars>>

NextContext == BuildContext

SpecContext == InitContext /\ [][NextContext]_vars

(***************************************************************************)
(* generate: write the generated files, run the codemods, lint, report     *)
(***************************************************************************)
\* a path is the sequence of its pieces: Path("src") / "api" / "app.py"
src_dir == <<"src">>
app_file == <<"src", "api", "app.py">>
deps_file == src_dir \o <<"api", "repositories", "dependencies.py">>
models_init == src_dir \o <<"db", "models", "__init__.py">>

compute_target_paths(dir, module_name) ==
    [schema |-> dir \o <<"schemas", module_name, ".py">>,
     model |-> dir \o <<"db", "models", module_name, ".py">>,
     repository |-> dir \o <<"db", "repositories", module_name, ".py">>,
     routes |-> dir \o <<"api", module_name, "routes.py">>]

\* the directories ensure_package_structure_for_targets visits, in its order
PackageDirs(dir, module_name) ==
    <<dir \o <<"schemas">>, dir \o <<"db", "models">>, dir \o <<"db", "repositories">>,
      dir \o <<"api", module_name>>, dir \o <<"api">>, dir \o <<"db">>, dir \o <<"db">>,
      dir \o <<"schemas">>>>

InitFile(dir_path) == dir_path \o <<"__init__.py">>

Absent == [exists |-> FALSE, text |-> <<>>]
File(text) == [exists |-> TRUE, text |-> text]

\* render_schema, render_model, render_repository, render_routes
contents ==
    [schema |-> <<Stmt("schema")>>, model |-> <<Stmt("model")>>,
     repository |-> <<Stmt("repository")>>, routes |-> <<Stmt("routes")>>]

ensure_package(fs, dir_path) ==
    IF fs[InitFile(dir_path)].exists THEN fs
    ELSE [fs EXCEPT ![InitFile(dir_path)] = File(<<>>)]

RECURSIVE EnsurePackagesFrom(_, _, _)
EnsurePackagesFrom(fs, dirs, i) ==
    IF i > Len(dirs) THEN fs
    ELSE EnsurePackagesFrom(ensure_package(fs, dirs[i]), dirs, i + 1)

ensure_package_structure_for_targets(fs, module_name) ==
    EnsurePackagesFrom(fs, PackageDirs(src_dir, module_name), 1)

write_text(fs, p, content, force) ==
    IF fs[p].exists /\ ~force
    THEN [raised |-> TRUE, files |-> fs, result |-> [action |-> "", path |-> p]]
    ELSE [raised |-> FALSE,
          files |-> [fs EXCEPT ![p] = File(content)],
          result |-> [action |-> IF fs[p].exists THEN "overwritten" ELSE "created",
                      path |-> p]]

write_generated_files(fs, module_name, force) ==
    LET paths == compute_target_paths(src_dir, module_name)
        f0 == ensure_package_structure_for_targets(fs, module_name)
        w1 == write_text(f0, paths.schema, contents.schema, force)
        w2 == write_text(w1.files, paths.model, contents.model, force)
        w3 == write_text(w2.files, paths.repository, contents.repository, force)
        w4 == write_text(w3.files, paths.routes, contents.routes, force)
    IN IF w1.raised THEN [raised |-> TRUE, files |-> f0, results |-> <<>>]
       ELSE IF w2.raised
            THEN [raised |-> TRUE, files |-> w1.files, results |-> <<w1.result>>]
       ELSE IF w3.raised
            THEN [raised |-> TRUE, files |-> w2.files,
                  results |-> <<w1.result, w2.result>>]
       ELSE IF w4.raised
            THEN [raised |-> TRUE, files |-> w3.files,
                  results |-> <<w1.result, w2.result, w3.result>>]
       ELSE [raised |-> FALSE, files |-> w4.files,
             results |-> <<w1.result, w2.result, w3.result, w4.result>>]

\* the exit codes of the ruff process
RuffExitCodes == {0, 1}

\* the files a generate run can read or write
Paths(module_name) ==
    {app_file, deps_file}
    \cup {compute_target_paths(src_dir, module_name)[k] :
            k \in {"schema", "model", "repository", "routes"}}
    \cup {InitFile(PackageDirs(src_dir, module_name)[i]) : i \in 1..8}

\* the codemod targets before the run: missing, empty, not parsable, or as an
\* earlier run for module order left them
AppFiles ==
    {Absent, File(<<>>), File(<<Bad>>),
     File(ensure_router_registered(<<>>, "order", "app").disk)}

DepsFiles ==
    {Absent, File(<<>>), File(<<Bad>>),
     File(ensure_repository_dependency(<<>>, "order", "Order").disk)}

ModelsInitFiles ==
    {Absent, File(<<>>), File(<<Bad>>),
     File(ensure_model_export(<<>>, "order", "Order").disk)}

Options ==
    [module_name : ModuleNames, register : BOOLEAN, force : BOOLEAN,
     ruff_strict : BOOLEAN]

InitGenerate ==
    /\ CodemodIdle /\ ContextIdle
    /\ pc = "write" /\ error = "" /\ results = <<>> /\ echoed = <<>>
    /\ opts \in Options
    /\ \E a \in AppFiles, d \in DepsFiles, mi \in ModelsInitFiles,
          T \in SUBSET {"schema", "model", "repository", "routes"},
          same \in BOOLEAN, packages \in BOOLEAN :
          LET paths == compute_target_paths(src_dir, opts.module_name)
          IN files = [f \in Paths(opts.module_name) |->
                IF f = app_file THEN a
                ELSE IF f = deps_file THEN d
                ELSE IF f = models_init THEN mi
                ELSE IF \E k \in T : f = paths[k]
                     THEN File(IF same
                               THEN contents[CHOOSE k \in T : f = paths[k]]
                               ELSE <<Stmt("old")>>)
                ELSE IF \E k \in DOMAIN paths : f = paths[k] THEN Absent
                ELSE IF packages THEN File(<<>>) ELSE Absent]
    /\ files0 = files
    /\ modified = [app |-> FALSE, deps |-> FALSE, models_init |-> FALSE]
    /\ outcome = [app |-> "none", deps |-> "none", models_init |-> "none"]

\* the exception leaves generate: nothing after the raising call runs
Fail(exception) ==
    /\ pc' = "failed"
    /\ error' = exception

\* cli.py:130-131  targets = compute_target_paths(...); results = write_generated_files(...)
GenerateWrite ==
    /\ pc = "write"
    /\ LET w == write_generated_files(files, opts.module_name, opts.force)
       IN /\ files' = w.files
          /\ results' = w.results
          /\ IF w.raised THEN Fail("FileExistsErrorWithPath")
             ELSE pc' = "router" /\ UNCHANGED error
    /\ UNCHANGED <<files0, opts, modified, echoed, outcome, codemodVars, contextVars>>

\* one ensure_* call on file p: read_text, parse_module, write_text, return
CodemodCall(key, p, r, next) ==
    IF ~files[p].exists
    THEN /\ Fail("FileNotFoundError")
         /\ outcome' = [outcome EXCEPT ![key] = "error"]
         /\ UNCHANGED <<files, modified>>
    ELSE IF r.raised
    THEN /\ Fail("ParserSyntaxError")
         /\ outcome' = [outcome EXCEPT ![key] = "error"]
         /\ files' = [files EXCEPT ![p].text = r.disk]
         /\ UNCHANGED modified
    ELSE /\ files' = [files EXCEPT ![p].text = r.disk]
         /\ modified' = [modified EXCEPT ![key] = r.returned]
         /\ outcome' = [outcome EXCEPT ![key] =
                            IF r.returned THEN "modified" ELSE "unchanged"]
         /\ pc' = next
         /\ UNCHANGED error

\* cli.py:136-137  if register: app_modified = ensure_router_registered(...)
GenerateRegisterRouter ==
    /\ pc = "router"
    /\ IF ~opts.register
       THEN pc' = "models" /\ UNCHANGED <<files, modified, outcome, error>>
       ELSE CodemodCall("app", app_file,
                ensure_router_registered(files[app_file].text, opts.module_name, "app"),
                "deps")
    /\ UNCHANGED <<files0, opts, results, echoed, codemodVars, contextVars>>

\* cli.py:138-140  if deps_file.exists(): deps_modified = ensure_repository_dependency(...)
GenerateRegisterDependency ==
    /\ pc = "deps"
    /\ IF ~files[deps_file].exists
       THEN pc' = "models" /\ UNCHANGED <<files, modified, outcome, error>>
       ELSE CodemodCall("deps", deps_file,
                ensure_repository_dependency(files[deps_file].text, opts.module_name,
                                             ModelOf(opts.module_name)),
                "models")
    /\ UNCHANGED <<files0, opts, results, echoed, codemodVars, contextVars>>

\* cli.py:142-145  if models_init.exists(): models_init_modified = ensure_model_export(...)
GenerateModelExport ==
    /\ pc = "models"
    /\ IF ~files[models_init].exists
       THEN pc' = "ruff" /\ UNCHANGED <<files, modified, outcome, error>>
       ELSE CodemodCall("models_init", models_init,
                ensure_model_export(files[models_init].text, opts.module_name,
                                    ModelOf(opts.module_name)),
                "ruff")
    /\ UNCHANGED <<files0, opts, results, echoed, codemodVars, contextVars>>

\* cli.py:148  run_ruff_fix(project_root, strict=ruff_strict, use_uv=use_uv);
\* the edits ruff itself makes to the project are left out
GenerateRuffFix ==
    /\ pc = "ruff"
    /\ \E exit_code \in RuffExitCodes :
          IF opts.ruff_strict /\ exit_code # 0
          THEN Fail("CalledProcessError")
          ELSE pc' = "echo" /\ UNCHANGED error
    /\ UNCHANGED <<files, files0, opts, modified, results, echoed, outcome,
                   codemodVars, contextVars>>

Line(was_modified, p) ==
    [action |-> IF was_modified THEN "modified" ELSE "unchanged", path |-> p]

\* cli.py:151-170  the lines echoed after "Files written:"
GenerateEcho ==
    /\ pc = "echo"
    /\ echoed' =
          results
          \o (IF files[models_init].exists
              THEN <<Line(modified.models_init, models_init)>> ELSE <<>>)
          \o (IF opts.register
              THEN <<Line(modified.app, app_file)>>
                   \o (IF files[deps_file].exists
                       THEN <<Line(modified.deps, deps_file)>> ELSE <<>>)
              ELSE <<>>)
    /\ pc' = "done"
    /\ UNCHANGED <<files, files0, opts, modified, results, outcome, error,
                   codemodVars, contextVars>>

NextGenerate ==
    \/ GenerateWrite
    \/ GenerateRegisterRouter
    \/ GenerateRegisterDependency
    \/ GenerateModelExport
    \/ GenerateRuffFix
    \/ GenerateEcho

SpecGenerate == InitGenerate /\ [][NextGenerate]_vars

(***************************************************************************)
(* Properties                                                              *)
(***************************************************************************)
Calls == 1..Len(log)

\* two calls in a row of the same function with the same arguments
Repeated(i) ==
    /\ i + 1 \in Calls
    /\ log[i + 1].fn = log[i].fn
    /\ log[i + 1].module_name = log[i].module_name
    /\ log[i + 1].model_name = log[i].model_name
    /\ log[i + 1].app_name = log[i].app_name
    /\ ~log[i].raised

SecondRunIsNoOp(i) ==
    /\ ~log[i + 1].raised
    /\ log[i + 1].after = log[i].after
    /\ ~log[i + 1].returned
    /\ ~log[i + 1].wrote

\* C1: running ensure_router_registered (resp. ensure_repository_dependency)
\* twice in a row with the same arguments on a file that parses leaves after
\* the second run exactly the text left by the first; the second run returns
\* False and writes nothing.
C1_RouterDepsIdempotent ==
    \A i \in Calls :
        (Repeated(i) /\ log[i].fn \in {"router", "deps"}) => SecondRunIsNoOp(i)

\* the first run changed the file, the second run followed
C1_Witness ==
    \E i \in Calls :
        /\ Repeated(i) /\ log[i].fn \in {"router", "deps"}
        /\ log[i].wrote /\ Len(log[i].before) > 0

\* C2: running ensure_model_export twice in a row with the same arguments on
\* a file that parses leaves after the second run exactly the text left by
\* the first and the second run returns False, wherever the __all__
\* assignment stands and whether the import is top-level or nested.
C2_ExportIdempotent ==
    \A i \in Calls :
        (Repeated(i) /\ log[i].fn = "export") => SecondRunIsNoOp(i)

\* text-level readings of a file, independent of the syntax tree
Lines(text) == 1..Len(text)

IsImportOf(u, m, n) == u.k = "import" /\ u.m = m /\ u.n = n

CountLines(text, P(_)) == Cardinality({i \in Lines(text) : P(text[i])})

\* text without its i-th line
Without(text, i) == SubSeq(text, 1, i - 1) \o SubSeq(text, i + 1, Len(text))

RouterAlias(c) == <<c.module_name, "_router">>
RouterModule(c) == <<"src.api", c.module_name, "routes">>
RepoModule(c) == <<"src.db.repositories", c.module_name>>
RepoName(c) == <<c.model_name, "Repository">>
GetterName(c) == <<"get_", c.module_name, "_repository">>
ModelModule(c) == <<"src.db.models", c.module_name>>

\* the import a call looks for: module path and imported name
ExpectedModule(c) ==
    IF c.fn = "router" THEN RouterModule(c)
    ELSE IF c.fn = "deps" THEN RepoModule(c) ELSE ModelModule(c)

ExpectedName(c) ==
    IF c.fn = "router" THEN <<"router">>
    ELSE IF c.fn = "deps" THEN RepoName(c) ELSE <<c.model_name>>

\* the alias the inserted import would carry
ExpectedAlias(c) == IF c.fn = "router" THEN RouterAlias(c) ELSE <<>>

IsExpectedImport(c, u) == IsImportOf(u, ExpectedModule(c), ExpectedName(c))

IsIncludeCall(c, u) ==
    u.k = "call" /\ u.m = <<c.app_name, "include_router">> /\ u.n = RouterAlias(c)

IsGetter(c, u) == u.k = "def" /\ u.n = GetterName(c)

\* the router import counts as present without alias or under <module>_router
HasRouterImport(c, text) ==
    \E i \in Lines(text) :
        IsExpectedImport(c, text[i]) /\ text[i].a \in {<<>>, RouterAlias(c)}

HasIncludeCall(c, text) == \E i \in Lines(text) : IsIncludeCall(c, text[i])

HasExpectedImport(c, text) == \E i \in Lines(text) : IsExpectedImport(c, text[i])

HasGetter(c, text) == \E i \in Lines(text) : IsGetter(c, text[i])

HasName(els, v) == \E j \in 1..Len(els) : els[j] = Str(v)

\* an __all__ list containing 'Base' and the model name
HasFullAll(c, text) ==
    \E i \in Lines(text) :
        /\ text[i].k = "all"
        /\ HasName(text[i].els, "Base")
        /\ HasName(text[i].els, c.model_name)

\* the file already contains the target pattern of the call
TargetPattern(c) ==
    IF c.fn = "router" THEN HasRouterImport(c, c.before) /\ HasIncludeCall(c, c.before)
    ELSE IF c.fn = "deps" THEN HasExpectedImport(c, c.before) /\ HasGetter(c, c.before)
    ELSE HasExpectedImport(c, c.before) /\ HasFullAll(c, c.before)

Untouched(c) == c.after = c.before /\ ~c.wrote /\ ~c.returned

\* C3 as stated: whenever the file already contains the target pattern of any
\* of the three mutators, the output equals the input, nothing is written and
\* False is returned.
C3_NoOpOnPatternAllMutators ==
    \A i \in Calls :
        (~log[i].raised /\ TargetPattern(log[i])) => Untouched(log[i])

\* the first top-level __all__ assignment of a text, 0 without one
FirstTopAll(text) ==
    LET S == {i \in Lines(text) : text[i].k = "all" /\ ~text[i].nest}
    IN IF S = {} THEN 0 ELSE Min(S)

\* the assignment is not in the form build_all_stmt emits
NotCanonical(u) == u.lay # "canon" \/ u.cmt # ""

\* the line is directly preceded by exactly one blank line and no comment
OneBlankAbove(text, i) ==
    /\ i >= 2 /\ text[i - 1] = Blank
    /\ (i = 2 \/ ~IsTrivia(text[i - 2]))

\* C3 (amended): for the router and the dependency mutator a file that holds
\* the target pattern comes out byte for byte, unwritten, with False returned;
\* the export-list mutator leaves a file unchanged only if its first top-level
\* __all__ assignment already has the canonical form the mutator emits and is
\* directly preceded by exactly one blank line: every other layout is
\* rewritten and True is returned, target pattern or not.
C3_NoOpRouterDepsExportCanonical ==
    \A i \in Calls :
        LET c == log[i]
            a == FirstTopAll(c.before)
        IN /\ (~c.raised /\ c.fn \in {"router", "deps"} /\ TargetPattern(c))
                => Untouched(c)
           /\ (~c.raised /\ c.fn = "export"
                  /\ ~(a # 0 /\ ~NotCanonical(c.before[a]) /\ OneBlankAbove(c.before, a)))
                => (c.after # c.before /\ c.wrote /\ c.returned)

\* a router file with the import, the call and a blank line went through
C3_Witness ==
    \E i \in Calls :
        /\ ~log[i].raised /\ log[i].fn = "router" /\ TargetPattern(log[i])
        /\ \E j \in Lines(log[i].before) : log[i].before[j] = Blank

CountExpectedImports(c, text) == CountLines(text, LAMBDA u : IsExpectedImport(c, u))

\* the file imports the expected name from the expected module under an alias
\* that is not the expected one
HasOtherAlias(c) ==
    \E i \in Lines(c.before) :
        /\ IsExpectedImport(c, c.before[i])
        /\ c.before[i].a # <<>>
        /\ c.before[i].a # ExpectedAlias(c)

\* C4 as stated: in each of the three mutators an existing import of the
\* expected name from the expected module under a different alias counts as
\* present: no second import of that name from that module is inserted.
C4_AliasFlexibleAllMutators ==
    \A i \in Calls :
        (~log[i].raised /\ HasOtherAlias(log[i]))
            => CountExpectedImports(log[i], log[i].after)
                 = CountExpectedImports(log[i], log[i].before)

\* C4 (amended): the dependency and the export-list mutator take an import of
\* the expected name from the expected module as present under any alias and
\* insert no second one; the router mutator takes it as present only without
\* alias or under <module>_router, and otherwise inserts one import under
\* <module>_router.
C4_AliasFlexibleDepsExport ==
    \A i \in Calls :
        LET c == log[i]
            before == CountExpectedImports(c, c.before)
            after == CountExpectedImports(c, c.after)
        IN /\ (~c.raised /\ c.fn \in {"deps", "export"} /\ HasOtherAlias(c))
                => after = before
           /\ (~c.raised /\ c.fn = "router")
                => after = (IF HasRouterImport(c, c.before) THEN before ELSE before + 1)

\* an aliased repository or model import was met by a call that changed the file
C4_Witness ==
    \E i \in Calls :
        /\ ~log[i].raised /\ log[i].fn \in {"deps", "export"}
        /\ HasOtherAlias(log[i])
        /\ ~(\E j \in Lines(log[i].before) :
                IsExpectedImport(log[i], log[i].before[j]) /\ log[i].before[j].a = <<>>)
        /\ log[i].wrote

RECURSIVE IsSubsequence(_, _)
\* s occurs in t in order, not necessarily contiguously
IsSubsequence(s, t) ==
    IF Len(s) = 0 THEN TRUE
    ELSE IF Len(t) = 0 THEN FALSE
    ELSE IF s[1] = t[1] THEN IsSubsequence(Tail(s), Tail(t))
    ELSE IsSubsequence(s, Tail(t))

\* the statements of a text, in order, without its i-th line
StatementsWithout(text, i) ==
    SelectSeq([j \in Lines(text) |-> IF j = i THEN Blank ELSE text[j]],
              LAMBDA u : ~IsTrivia(u))

\* comment lines and trailing comments
CountComments(text) == CountLines(text, LAMBDA u : u.cmt # "")

\* the __all__ assignment a call on the export list replaces, 0 when none
Replaced(c) == IF c.fn = "export" THEN FirstTopAll(c.before) ELSE 0

\* C5: every statement of the input other than a replaced __all__ assignment
\* stands in the output in the same relative order with the same text, and
\* every comment of the input, also one above or on the line of the __all__
\* assignment, is still in the output.
C5_MinimalDiff ==
    \A i \in Calls :
        LET c == log[i]
        IN ~c.raised =>
            /\ IsSubsequence(StatementsWithout(c.before, Replaced(c)),
                             StatementsWithout(c.after, 0))
            /\ CountComments(c.after) >= CountComments(c.before)

CountAliasedRouterImports(c, text) ==
    CountLines(text, LAMBDA u : IsExpectedImport(c, u) /\ u.a = RouterAlias(c))

CountIncludeCalls(c, text) == CountLines(text, LAMBDA u : IsIncludeCall(c, u))

\* text is the given text with one more line u at position j
InsertedAt(text, j, u, given) ==
    j \in Lines(text) /\ text[j] = u /\ Without(text, j) = given

\* the two lines the router mutator writes
NewRouterImport(c) ==
    ImportFrom(RouterModule(c), <<"router">>, RouterAlias(c), "# noqa: E402", FALSE)

NewIncludeCall(c) == Call(<<c.app_name, "include_router">>, RouterAlias(c), FALSE)

NoStatementAfter(text, j) == \A k \in Lines(text) : k > j => IsTrivia(text[k])

\* C6: the router mutator inserts the import exactly when it is absent and the
\* call exactly when it is absent: with neither, the output has exactly one
\* import of router as <module>_router and exactly one include_router call,
\* the import first, and nothing else differs; with the call only, just the
\* import is added; with the import only, just the call is added after the
\* last statement.
C6_RouterInsertsIndependently ==
    \A i \in Calls :
        LET c == log[i]
            imp == HasRouterImport(c, c.before)
            inc == HasIncludeCall(c, c.before)
        IN (~c.raised /\ c.fn = "router") =>
            /\ (~imp /\ ~inc) =>
                  /\ CountAliasedRouterImports(c, c.after) = 1
                  /\ CountIncludeCalls(c, c.after) = 1
                  /\ \E j, k \in Lines(c.after) :
                        /\ j < k
                        /\ c.after[j] = NewRouterImport(c)
                        /\ NoStatementAfter(c.after, k)
                        /\ InsertedAt(Without(c.after, j), k - 1, NewIncludeCall(c), c.before)
            /\ (~imp /\ inc) =>
                  /\ CountIncludeCalls(c, c.after) = CountIncludeCalls(c, c.before)
                  /\ \E j \in Lines(c.after) :
                        InsertedAt(c.after, j, NewRouterImport(c), c.before)
            /\ (imp /\ ~inc) =>
                  \E k \in Lines(c.after) :
                        /\ NoStatementAfter(c.after, k)
                        /\ InsertedAt(c.after, k, NewIncludeCall(c), c.before)
            /\ (imp /\ inc) => c.after = c.before

\* a file with the call but no import went through
C6_Witness ==
    \E i \in Calls :
        /\ ~log[i].raised /\ log[i].fn = "router"
        /\ ~HasRouterImport(log[i], log[i].before)
        /\ HasIncludeCall(log[i], log[i].before)
        /\ Len(log[i].after) = Len(log[i].before) + 1

CountAll(text) == CountLines(text, LAMBDA u : u.k = "all")

\* the string names of the one top-level __all__ list of a text
ExistingNames(text) ==
    IF FirstTopAll(text) = 0 THEN <<>> ELSE StringValues(text[FirstTopAll(text)].els)

OnlyStrings(text) ==
    \A i \in Lines(text) : \A j \in 1..Len(text[i].els) : text[i].els[j].str

\* 'Base' first if it was not in E, then E in its order, then T if not in E
Emitted(E, T) ==
    (IF Contains(E, "Base") THEN <<>> ELSE <<"Base">>)
        \o E \o (IF Contains(E, T) THEN <<>> ELSE <<T>>)

\* C7: with E the string names of the existing __all__ list (empty when there
\* is none) and T the model name, the emitted list is 'Base' first if it was
\* not in E, then E in its original order, then T last if it was not in E,
\* one quoted comma-terminated element per line whatever the layout before.
C7_ExportListElements ==
    \A i \in Calls :
        LET c == log[i]
            a == FirstTopAll(c.after)
        IN (~c.raised /\ c.fn = "export" /\ OnlyStrings(c.before)
              /\ CountAll(c.before) = (IF FirstTopAll(c.before) = 0 THEN 0 ELSE 1))
            => /\ a # 0
               /\ c.after[a].lay = "canon"
               /\ c.after[a].cmt = ""
               /\ StringValues(c.after[a].els) = Emitted(ExistingNames(c.before), c.model_name)
               /\ OnlyStrings(c.after)
               /\ CountAll(c.after) = 1

\* a single-line list without 'Base' and without the model name was rewritten
C7_Witness ==
    \E i \in Calls :
        LET c == log[i]
        IN /\ ~c.raised /\ c.fn = "export"
           /\ CountAll(c.before) = 1 /\ FirstTopAll(c.before) # 0
           /\ c.before[FirstTopAll(c.before)].lay = "inline"
           /\ ExistingNames(c.before) = <<"Zeta", "Alpha">>
           /\ ExistingNames(c.after) = <<"Base", "Zeta", "Alpha", c.model_name>>

RECURSIVE BlanksAtEnd(_)
\* the blank lines that trail a text
BlanksAtEnd(text) ==
    IF Len(text) = 0 THEN 0
    ELSE IF text[Len(text)] = Blank
         THEN 1 + BlanksAtEnd(SubSeq(text, 1, Len(text) - 1))
         ELSE 0

\* the blank lines directly above line j
BlanksAbove(text, j) == BlanksAtEnd(SubSeq(text, 1, j - 1))

\* C8: when the dependency mutator appends get_<module>_repository to a file
\* that does not define it, exactly two blank lines stand directly above the
\* function in the output, however many blank lines trailed the file.
C8_TwoBlankLinesBeforeGetter ==
    \A i \in Calls :
        LET c == log[i]
        IN (~c.raised /\ c.fn = "deps" /\ ~HasGetter(c, c.before))
            => /\ CountLines(c.after, LAMBDA u : IsGetter(c, u)) = 1
               /\ \A j \in Lines(c.after) :
                     IsGetter(c, c.after[j]) => BlanksAbove(c.after, j) = 2

\* the function was appended to a file with a statement and three blank
\* lines at its end
C8_Witness ==
    \E i \in Calls :
        LET c == log[i]
        IN /\ ~c.raised /\ c.fn = "deps" /\ ~HasGetter(c, c.before)
           /\ BlanksAtEnd(c.before) = 3
           /\ Len(c.before) > 3
           /\ HasGetter(c, c.after)

\* C9: a call of any of the three functions on a text that does not parse
\* raises, writes nothing and leaves the file on disk as it was.
C9_MalformedInputUntouched ==
    \A i \in Calls :
        ~Parses(log[i].before)
            => /\ log[i].raised
               /\ ~log[i].wrote
               /\ log[i].after = log[i].before
               /\ (i = Len(log) => disk = log[i].before)

\* a call met a file holding a line that does not parse among others
C9_Witness ==
    \E i \in Calls :
        /\ ~Parses(log[i].before) /\ log[i].raised
        /\ \E j \in Lines(log[i].before) : log[i].before[j].k = "import"

\* C10: the file is written exactly when the re-serialized text differs from
\* the text read, and True is returned exactly when it was written: after
\* False the file is as before, after True it holds the mutated text.
C10_ModifiedSignal ==
    \A i \in Calls :
        LET c == log[i]
        IN ~c.raised =>
            /\ c.wrote <=> (c.new_code # c.before)
            /\ c.returned <=> c.wrote
            /\ ~c.returned => c.after = c.before
            /\ c.returned => c.after = c.new_code
            /\ (i = Len(log) => disk = c.after)

\* one call returned True and the next one False
C10_Witness ==
    \E i \in Calls :
        /\ i + 1 \in Calls
        /\ ~log[i].raised /\ log[i].returned
        /\ ~log[i + 1].raised /\ ~log[i + 1].returned

\* every assignment to __all__ of a text, nested ones too, in document order
AllLines(text) == {i \in Lines(text) : text[i].k = "all"}

\* the other __all__ assignments of a text, in order
OtherAlls(text, i) ==
    SelectSeq([j \in Lines(text) |-> IF j = i THEN Blank ELSE text[j]],
              LAMBDA u : u.k = "all")

\* C13: when the file holds more than one assignment to __all__, the first
\* one is used: the emitted list is built from the string elements of the
\* first assignment and replaces it, and every other assignment is left as it
\* is and has no influence on the emitted list.
C13_FirstAllIsUsed ==
    \A i \in Calls :
        LET c == log[i]
            f == Min(AllLines(c.before))
            a == FirstTopAll(c.after)
        IN (~c.raised /\ c.fn = "export" /\ Cardinality(AllLines(c.before)) > 1
              /\ ~c.before[f].nest)
            => /\ a # 0
               /\ StringValues(c.after[a].els)
                    = Emitted(StringValues(c.before[f].els), c.model_name)
               /\ OtherAlls(c.after, a) = OtherAlls(c.before, f)

\* the import the dependency mutator writes
NewRepoImport(c) == ImportFrom(RepoModule(c), RepoName(c), <<>>, "", FALSE)

\* C14: if the file already defines a function named get_<module>_repository,
\* whatever its body, the dependency mutator adds no function and leaves the
\* definition as it is: the output is the input, or the input with the one
\* import inserted.
C14_ExistingGetterKept ==
    \A i \in Calls :
        LET c == log[i]
        IN (~c.raised /\ c.fn = "deps" /\ HasGetter(c, c.before))
            => /\ CountLines(c.after, LAMBDA u : IsGetter(c, u))
                    = CountLines(c.before, LAMBDA u : IsGetter(c, u))
               /\ \/ c.after = c.before
                  \/ /\ ~HasExpectedImport(c, c.before)
                     /\ \E j \in Lines(c.after) :
                           InsertedAt(c.after, j, NewRepoImport(c), c.before)

\* a file with a hand-written get_order_repository and no import went through
C14_Witness ==
    \E i \in Calls :
        LET c == log[i]
        IN /\ ~c.raised /\ c.fn = "deps" /\ c.wrote
           /\ \E j \in Lines(c.before) :
                 IsGetter(c, c.before[j]) /\ c.before[j].a = <<"raise NotImplementedError">>
           /\ \E j \in Lines(c.after) :
                 IsGetter(c, c.after[j]) /\ c.after[j].a = <<"raise NotImplementedError">>

\* the matching import is absent by the rule of the mutator called
ImportAbsent(c) ==
    IF c.fn = "router" THEN ~HasRouterImport(c, c.before)
    ELSE ~HasExpectedImport(c, c.before)

NewModelImport(c) == ImportFrom(ModelModule(c), <<c.model_name>>, <<>>, "", FALSE)

\* the import line the mutator called writes
NewImport(c) ==
    IF c.fn = "router" THEN NewRouterImport(c)
    ELSE IF c.fn = "deps" THEN NewRepoImport(c) ELSE NewModelImport(c)

IsTopImport(u) == u.k = "import" /\ ~u.nest

\* the last top-level import line of a text, 0 without one
LastTopImport(text) == Max({0} \cup {i \in Lines(text) : IsTopImport(text[i])})

\* the position of line i among the statements of a text
StatementIndex(text, i) == Cardinality({j \in 1..i : ~IsTrivia(text[j])})

\* no other statement stands between two top-level imports
ContiguousImports(text) ==
    \A i, j, k \in Lines(text) :
        (i < k /\ k < j /\ IsTopImport(text[i]) /\ IsTopImport(text[j]))
            => (IsTrivia(text[k]) \/ IsTopImport(text[k]))

\* C15: in each of the three mutators an absent import is inserted as a new
\* top-level statement directly after the last top-level import of the file,
\* or as the first statement when the file has no top-level import; top-level
\* imports that were contiguous stay contiguous.
C15_ImportInsertionPoint ==
    \A i \in Calls :
        LET c == log[i]
            last == LastTopImport(c.before)
        IN (~c.raised /\ ImportAbsent(c))
            => /\ CountLines(c.after, LAMBDA u : u = NewImport(c)) = 1
               /\ \A j \in Lines(c.after) :
                     c.after[j] = NewImport(c)
                        => IF last = 0
                           THEN StatementIndex(c.after, j) = 1
                           ELSE /\ j > 1 /\ c.after[j - 1] = c.before[last]
                                /\ StatementIndex(c.after, j)
                                     = StatementIndex(c.before, last) + 1
               /\ ContiguousImports(c.before) => ContiguousImports(c.after)

\* an import went in between the last top-level import and a later statement
C15_Witness ==
    \E i \in Calls :
        LET c == log[i]
            last == LastTopImport(c.before)
        IN /\ ~c.raised /\ ImportAbsent(c) /\ c.wrote
           /\ last > 1
           /\ \E k \in Lines(c.before) : k > last /\ ~IsTrivia(c.before[k])

\* the statements of a text without the import a call wrote
StatementsWithoutNewImport(c, text) ==
    SelectSeq(text, LAMBDA u : ~IsTrivia(u) /\ ~(ImportAbsent(c) /\ u = NewImport(c)))

\* C16: after ensure_model_export the __all__ assignment it inserted or
\* replaced has exactly one blank line directly above it, however many stood
\* there before; an inserted assignment follows the last top-level import, a
\* replaced one keeps the place of the original among the statements.
C16_OneBlankLineAboveAll ==
    \A i \in Calls :
        LET c == log[i]
            old == FirstTopAll(c.before)
            new == FirstTopAll(c.after)
            sb == StatementsWithoutNewImport(c, c.before)
            sa == StatementsWithoutNewImport(c, c.after)
        IN (~c.raised /\ c.fn = "export")
            => /\ new # 0
               /\ BlanksAbove(c.after, new) = 1
               /\ (old = 0 /\ LastTopImport(c.after) # 0)
                     => new = LastTopImport(c.after) + 2
               /\ old # 0
                     => /\ Len(sa) = Len(sb)
                        /\ \A k \in 1..Len(sb) :
                              \/ sa[k] = sb[k]
                              \/ sb[k] = c.before[old] /\ sa[k] = c.after[new]

\* C17: when the function is appended to a file that holds a statement,
\* max(2, n) blank lines stand between the preceding content and the
\* function, n being the blank lines that trailed the file: fewer than two are padded to two, more than two are kept
\* where they are and do not end up after the function.
C17_PaddingKeepsTrailingBlanks ==
    \A i \in Calls :
        LET c == log[i]
            n == BlanksAtEnd(c.before)
        IN (~c.raised /\ c.fn = "deps" /\ ~HasGetter(c, c.before)
              /\ \E k \in Lines(c.before) : ~IsTrivia(c.before[k]))
            => /\ \A j \in Lines(c.after) :
                     IsGetter(c, c.after[j])
                        => BlanksAbove(c.after, j) = Max({2, n})
               /\ n > 2 => BlanksAtEnd(c.after) = 0

\* C19: after ensure_router_registered the name <module>_router given to
\* include_router is bound by an import of router from src.api.<module>.routes
\* under that alias, also when the file imported router without alias before.
C19_RouterAliasBound ==
    \A i \in Calls :
        LET c == log[i]
        IN (~c.raised /\ c.fn = "router")
            => /\ HasIncludeCall(c, c.after)
               /\ CountAliasedRouterImports(c, c.after) >= 1

IsElement(els, e) == \E j \in 1..Len(els) : els[j] = e

\* C20: the export-list mutator removes no export: every element of the
\* existing list or tuple literal, string or not, is an element of the emitted
\* list, and an __all__ bound to a value that is no literal is not replaced.
C20_NoExportRemoved ==
    \A i \in Calls :
        LET c == log[i]
            old == FirstTopAll(c.before)
            new == FirstTopAll(c.after)
        IN (~c.raised /\ c.fn = "export" /\ old # 0 /\ CountAll(c.before) = 1)
            => /\ new # 0
               /\ IF IsListOrTuple(c.before[old].lay)
                  THEN \A j \in 1..Len(c.before[old].els) :
                          IsElement(c.after[new].els, c.before[old].els[j])
                  ELSE c.after[new] = c.before[old]

\* C18: a field whose params hold no default key gets default None and
\* default_repr "None" in its context; a field with a default gets the repr
\* of that value as default_repr.
C18_NoDefaultRendersNone ==
    \A i \in 1..Len(field_ctx) :
        IF "default" \notin DOMAIN field.params
        THEN field_ctx[i].default = PyNone /\ field_ctx[i].default_repr = "None"
        ELSE field_ctx[i].default_repr = field.params["default"].repr

\* the path of each codemod target of a generate run
TargetPath(key) ==
    IF key = "app" THEN app_file
    ELSE IF key = "deps" THEN deps_file
    ELSE models_init

Reported(key) ==
    \E i \in 1..Len(echoed) :
        echoed[i] = [action |-> outcome[key], path |-> TargetPath(key)]

\* C11: when a generate run has ended, normally or with an error, the
\* unchanged/modified outcome of every codemod target it processed (app file,
\* dependencies file, models __init__) has been reported to the caller, also
\* when a later target failed.
C11_EveryOutcomeReported ==
    pc \in {"done", "failed"} =>
        \A key \in DOMAIN outcome :
            outcome[key] \in {"unchanged", "modified"} => Reported(key)

\* C12: when a generate run ends with an error raised by a codemod step or
\* by the strict lint step, every file on disk is as it was before the run.
C12_NoPartialDiskState ==
    (pc = "failed"
     /\ error \in {"FileNotFoundError", "ParserSyntaxError", "CalledProcessError"})
        => files = files0

\* the four targets of the run
TargetPaths ==
    {compute_target_paths(src_dir, opts.module_name)[k] :
        k \in {"schema", "model", "repository", "routes"}}

\* write_generated_files has returned or raised
WriteEnded == pc \notin {"idle", "write"}

\* some target was there when write_generated_files(..., force=False) was called
TargetExisted == ~opts.force /\ \E p \in TargetPaths : files0[p].exists

WriteRaises == TargetExisted => pc = "failed" /\ error = "FileExistsErrorWithPath"

ExistingTargetsKept ==
    TargetExisted => \A p \in TargetPaths : files0[p].exists => files[p] = files0[p]

NoTargetCreated ==
    TargetExisted => \A p \in TargetPaths : ~files0[p].exists => ~files[p].exists

\* C21: write_generated_files with force=False on a project where a target
\* exists raises FileExistsErrorWithPath, leaves every existing target as it
\* was and has created none of the other targets.
C21_WriteAllOrNothing ==
    WriteEnded => WriteRaises /\ ExistingTargetsKept /\ NoTargetCreated

====
